---- MODULE Spec2Model ----
(***************************************************************************)
(* Model of the coin tracker's App component (App.tsx): the list poll and  *)
(* its interval timer, the favorites list and its localStorage entry, the  *)
(* search filter, and the CoinDetail view with its per-coin fetch.         *)
(*                                                                         *)
(* One action is one turn of the browser's event loop: an event handler   *)
(* or promise continuation with the render and the effects React runs for  *)
(* the state updates it made.  Text (names, symbols, the search term) is a *)
(* sequence of one-character strings; the localStorage text is a sequence  *)
(* of JSON tokens in which an identifier token stands for that identifier  *)
(* written as a quoted JSON string.  A nullable value is <<>> (null) or a  *)
(* one-element sequence.                                                   *)
(***************************************************************************)
EXTENDS Integers, Sequences, FiniteSets, TLC

VARIABLES app, saved, storage, favorites, coins, loading, searchTerm,
          pathname, interval, polls, detailCoin, detailLoading, detailReq,
          staleDetail, detailIssued, lastOp

vars == <<app, saved, storage, favorites, coins, loading, searchTerm,
          pathname, interval, polls, detailCoin, detailLoading, detailReq,
          staleDetail, detailIssued, lastOp>>

(* ---------------------------- bounds ---------------------------------- *)

\* list requests issued in one run (the initial one and the interval ticks)
MaxPolls == 3
\* tokens in the text found under 'favorites' when the page loads
MaxText == 5
\* characters in a search term
MaxTerm == 2
\* characters in a search term typed while polls, favorites and navigation
\* are explored as well
MaxTermApp == 1
\* detail requests of unmounted CoinDetail instances tracked as outstanding
MaxStale == 1
\* value at which the count of detail requests per navigation saturates
MaxDetailIssued == 2
\* list requests issued in a run that also explores the detail view
MaxPollsDetail == 2
\* list requests issued in a run that also explores favorites or the filter
MaxPollsFew == 2

Min(a, b) == IF a < b THEN a ELSE b

(* ------------------------- text and case ------------------------------ *)

UpperToLower ==
    ("B" :> "b") @@ ("D" :> "d") @@ ("T" :> "t") @@ ("O" :> "o")

\* String.prototype.toLowerCase, one character
LowerChar(c) == IF c \in DOMAIN UpperToLower THEN UpperToLower[c] ELSE c

\* String.prototype.toLowerCase
toLowerCase(s) == [i \in 1..Len(s) |-> LowerChar(s[i])]

\* String.prototype.includes: needle occurs at some offset of hay
includes(hay, needle) ==
    \E off \in 0..(Len(hay) - Len(needle)) :
        SubSeq(hay, off + 1, off + Len(needle)) = needle

(* --------------------------- coin records ----------------------------- *)

CoinIds == {"bitcoin", "dogecoin"}

Bitcoin(price) ==
    [id |-> "bitcoin", symbol |-> <<"b", "t">>, name |-> <<"B", "i", "t">>,
     current_price |-> price]

Dogecoin(price) ==
    [id |-> "dogecoin", symbol |-> <<"D", "O">>, name |-> <<"d", "o", "g">>,
     current_price |-> price]

Tether(price) ==
    [id |-> "tether", symbol |-> <<"t", "O">>, name |-> <<"T", "e", "t">>,
     current_price |-> price]

\* response.data of the coins/markets request: what the provider may answer
Responses ==
    { <<Bitcoin(100), Dogecoin(1)>>,
      <<Dogecoin(2), Bitcoin(100)>> }

\* the answers explored with the search filter
FilterResponses ==
    Responses \cup { <<Bitcoin(100), Dogecoin(1), Tether(1)>> }

\* response.data of the coins/{id} request; <<>> is an answer without a record
DetailResponses(id) ==
    IF id = "bitcoin" THEN { <<Bitcoin(100)>>, <<>> }
    ELSE IF id = "dogecoin" THEN { <<Dogecoin(1)>>, <<>> }
    ELSE { <<>> }

(* ------------------------ JSON and localStorage ----------------------- *)

Punctuation == {"[", "]", ","}
Tokens == Punctuation \cup CoinIds

RECURSIVE JoinIds(_)
JoinIds(ids) ==
    IF Len(ids) = 0 THEN <<>>
    ELSE IF Len(ids) = 1 THEN <<ids[1]>>
    ELSE <<ids[1], ",">> \o JoinIds(Tail(ids))

\* JSON.stringify of a string[]
stringify(ids) == <<"[">> \o JoinIds(ids) \o <<"]">>

\* the text is a JSON array of strings
IsArrayText(t) ==
    /\ Len(t) >= 2
    /\ t[1] = "["
    /\ t[Len(t)] = "]"
    /\ LET inner == SubSeq(t, 2, Len(t) - 1) IN
         \/ Len(inner) = 0
         \/ /\ Len(inner) % 2 = 1
            /\ \A i \in 1..Len(inner) :
                 IF i % 2 = 1 THEN inner[i] \notin Punctuation
                 ELSE inner[i] = ","

\* JSON.parse: the array read from the text, or a SyntaxError
parse(t) ==
    IF IsArrayText(t)
    THEN [ok |-> TRUE,
          val |-> [k \in 1..((Len(t) - 1) \div 2) |-> t[2 * k]]]
    ELSE [ok |-> FALSE, val |-> <<>>]

RECURSIVE SeqsUpTo(_, _)
SeqsUpTo(S, n) ==
    IF n = 0 THEN { <<>> }
    ELSE LET shorter == SeqsUpTo(S, n - 1) IN
         shorter \cup { Append(s, x) : s \in shorter, x \in S }

\* Texts the entry may hold when the page loads: whatever an earlier session
\* wrote and whatever a truncated or garbled write left.  A text that begins
\* with an identifier token is a JSON string, not a string[], and is not a
\* value of the favorites state; such texts are left out.
InitialTexts ==
    { t \in SeqsUpTo(Tokens, MaxText) : Len(t) = 0 \/ t[1] \in Punctuation }

\* localStorage.getItem('favorites'): <<>> is null, <<t>> is the text t
InitialStorage == { <<>> } \cup { <<t>> : t \in InitialTexts }

(* ----------------------------- navigation ----------------------------- *)

\* window.location.pathname, split at '/'
RootPath == <<"", "">>
CoinPath(id) == <<"", "coin", id>>

DetailIds == CoinIds \cup {"unknown"}

\* window.location.pathname.split('/').pop() || ''
CoinIdOf(p) == p[Len(p)]

\* the route "/coin/:coinId" matches
IsCoinPath(p) == Len(p) = 3 /\ p[2] = "coin"

(* ------------------------------ filter -------------------------------- *)

\* Matches without toLowerCase on the search term
Matches_TermAsTyped(coin, term) ==
    \/ includes(toLowerCase(coin.name), term)
    \/ includes(toLowerCase(coin.symbol), term)

\* the predicate of coins.filter
Matches(coin, term) ==
    \/ includes(toLowerCase(coin.name), toLowerCase(term))
    \/ includes(toLowerCase(coin.symbol), toLowerCase(term))

\* Array.prototype.filter with that predicate
RECURSIVE filterCoins(_, _)
filterCoins(cs, term) ==
    IF Len(cs) = 0 THEN <<>>
    ELSE IF Matches(cs[1], term)
         THEN <<cs[1]>> \o filterCoins(Tail(cs), term)
         ELSE filterCoins(Tail(cs), term)

\* the list rendered as cards
filteredCoins == filterCoins(coins, searchTerm)

SearchChars == {"b", "B", "t", "O"}
Terms == SeqsUpTo(SearchChars, MaxTerm)
\* the terms typed while polls, favorites and navigation are explored: "b"
\* hides the Dogecoin card, "O" the Bitcoin card
SearchCharsApp == {"b", "O"}
TermsApp == SeqsUpTo(SearchCharsApp, MaxTermApp)

(* ------------------------------ favorites ----------------------------- *)

\* prev.includes(coinId)
Member(list, x) == \E i \in 1..Len(list) : list[i] = x

RECURSIVE Without(_, _)
\* prev.filter(id => id !== coinId)
Without(list, x) ==
    IF Len(list) = 0 THEN <<>>
    ELSE IF list[1] # x THEN <<list[1]>> \o Without(Tail(list), x)
         ELSE Without(Tail(list), x)

\* toggled without the membership test: it always appends
toggled_AlwaysAppends(prev, coinId) == Append(prev, coinId)

\* the updater passed to setFavorites
toggled(prev, coinId) ==
    IF Member(prev, coinId) THEN Without(prev, coinId) ELSE Append(prev, coinId)

\* the useState initializer of favorites: the list, or the exception thrown
favoritesInit(sv) ==
    IF sv # <<>> /\ Len(sv[1]) > 0
    THEN LET r == parse(sv[1]) IN [threw |-> ~r.ok, val |-> r.val]
    ELSE [threw |-> FALSE, val |-> <<>>]

(* ------------------------------- views -------------------------------- *)

\* what App renders: nothing, the full-screen loading text, or the page
\* (header with the search input, and the routes)
AppView ==
    IF app # "mounted" THEN "none"
    ELSE IF loading THEN "loading"
    ELSE "page"

SearchInputRendered == AppView = "page"

\* a CoinDetail instance is mounted
DetailMounted == AppView = "page" /\ IsCoinPath(pathname)

\* what CoinDetail renders
DetailView ==
    IF detailLoading THEN "loading"
    ELSE IF detailCoin = <<>> THEN "notfound"
    ELSE "record"

Issued == Len(polls)

(* ------------------------------- Init --------------------------------- *)

InitialPaths == {RootPath} \cup {CoinPath(id) : id \in DetailIds}

InitWith(stores, paths) ==
    /\ app = "unstarted"
    /\ saved = <<>>
    /\ storage \in stores
    /\ favorites = <<>>
    /\ coins = <<>>
    /\ loading = TRUE
    /\ searchTerm = <<>>
    /\ pathname \in paths
    /\ interval = FALSE
    /\ polls = <<>>
    /\ detailCoin = <<>>
    /\ detailLoading = TRUE
    /\ detailReq = "none"
    /\ staleDetail = 0
    /\ detailIssued = 0
    /\ lastOp = <<"none">>

(* ------------------------------ rendering ----------------------------- *)

Pending == [st |-> "pending", data |-> <<>>]

\* An App render with loading = ld at path p.  CoinDetail is declared in
\* App's body, so every App render hands React a new component type at the
\* detail route: the mounted instance is unmounted and a new one mounted
\* with its initial state, and its effect issues a request.  The request of
\* the unmounted instance stays outstanding.  fresh: the render follows a
\* navigation.
RenderApp(ld, p, fresh) ==
    /\ staleDetail' =
         Min(staleDetail + (IF detailReq = "pending" THEN 1 ELSE 0), MaxStale)
    /\ detailCoin' = <<>>
    /\ detailLoading' = TRUE
    /\ IF ~ld /\ IsCoinPath(p)
       THEN /\ detailReq' = "pending"
            /\ detailIssued' =
                 Min((IF fresh THEN 0 ELSE detailIssued) + 1, MaxDetailIssued)
       ELSE /\ detailReq' = "none"
            /\ detailIssued' = 0

NoRender == UNCHANGED <<detailCoin, detailLoading, detailReq, staleDetail,
                        detailIssued>>

(* ------------------------------ actions ------------------------------- *)

\* first render of App and its two mount effects
Mount ==
    /\ app = "unstarted"
    /\ saved' = storage
    /\ lastOp' = <<"Mount">>
    /\ LET f == favoritesInit(storage) IN
       IF f.threw
       THEN /\ app' = "crashed"
            /\ UNCHANGED <<storage, favorites, coins, loading, searchTerm,
                           pathname, interval, polls>>
            /\ NoRender
       ELSE /\ app' = "mounted"
            /\ favorites' = f.val
            /\ polls' = <<Pending>>
            /\ interval' = TRUE
            /\ storage' = <<stringify(f.val)>>
            /\ UNCHANGED <<coins, loading, searchTerm, pathname>>
            /\ NoRender

\* the interval timer fires: fetchCoins().  limit bounds the requests of a run.
Tick(limit) ==
    /\ interval
    /\ Issued < limit
    /\ polls' = Append(polls, Pending)
    /\ lastOp' = <<"Tick">>
    /\ UNCHANGED <<app, saved, storage, favorites, coins, loading,
                   searchTerm, pathname, interval>>
    /\ NoRender

\* request n resolves: setCoins(response.data), then finally setLoading(false)
FetchCoinsSuccess(n, data) ==
    /\ n \in 1..Issued
    /\ polls[n].st = "pending"
    /\ polls' = [polls EXCEPT ![n] = [st |-> "ok", data |-> data]]
    /\ lastOp' = <<"FetchCoinsSuccess">>
    /\ IF app = "mounted"
       THEN /\ coins' = data
            /\ loading' = FALSE
            /\ RenderApp(FALSE, pathname, FALSE)
       ELSE /\ UNCHANGED <<coins, loading>>
            /\ NoRender
    /\ UNCHANGED <<app, saved, storage, favorites, searchTerm, pathname,
                   interval>>

\* FetchCoinsFail with a catch block that also empties the collection
FetchCoinsFail_ClearsCoins(n) ==
    /\ n \in 1..Issued
    /\ polls[n].st = "pending"
    /\ polls' = [polls EXCEPT ![n] = [st |-> "fail", data |-> <<>>]]
    /\ lastOp' = <<"FetchCoinsFail">>
    /\ IF app = "mounted"
       THEN /\ coins' = <<>>
            /\ loading' = FALSE
            /\ RenderApp(FALSE, pathname, FALSE)
       ELSE /\ UNCHANGED <<coins, loading>>
            /\ NoRender
    /\ UNCHANGED <<app, saved, storage, favorites, searchTerm, pathname,
                   interval>>

\* request n rejects: console.error, then finally setLoading(false)
FetchCoinsFail(n) ==
    /\ n \in 1..Issued
    /\ polls[n].st = "pending"
    /\ polls' = [polls EXCEPT ![n] = [st |-> "fail", data |-> <<>>]]
    /\ lastOp' = <<"FetchCoinsFail">>
    /\ IF app = "mounted" /\ loading
       THEN /\ loading' = FALSE
            /\ RenderApp(FALSE, pathname, FALSE)
       ELSE /\ UNCHANGED loading
            /\ NoRender
    /\ UNCHANGED <<app, saved, storage, favorites, coins, searchTerm,
                   pathname, interval>>

\* Unmount with an effect that returns no cleanup: the timer keeps running
Unmount_KeepsInterval ==
    /\ app = "mounted"
    /\ app' = "unmounted"
    /\ lastOp' = <<"Unmount">>
    /\ RenderApp(TRUE, pathname, FALSE)
    /\ UNCHANGED <<saved, storage, favorites, coins, loading, searchTerm,
                   pathname, polls, interval>>

\* the view is torn down: the effect's cleanup runs clearInterval.  The
\* CoinDetail instance goes with it; its request stays outstanding.
Unmount ==
    /\ app = "mounted"
    /\ app' = "unmounted"
    /\ interval' = FALSE
    /\ lastOp' = <<"Unmount">>
    /\ RenderApp(TRUE, pathname, FALSE)
    /\ UNCHANGED <<saved, storage, favorites, coins, loading, searchTerm,
                   pathname, polls>>

\* onChange of the search input
setSearchTerm(s) ==
    /\ SearchInputRendered
    /\ s # searchTerm
    /\ searchTerm' = s
    /\ lastOp' = <<"setSearchTerm">>
    /\ RenderApp(loading, pathname, FALSE)
    /\ UNCHANGED <<app, saved, storage, favorites, coins, loading, pathname,
                   interval, polls>>

\* toggleFavorite without the effect that writes the entry
toggleFavorite_NoWrite(coinId) ==
    /\ AppView = "page"
    /\ pathname = RootPath
    /\ \E i \in 1..Len(filteredCoins) : filteredCoins[i].id = coinId
    /\ favorites' = toggled(favorites, coinId)
    /\ lastOp' = <<"toggleFavorite", coinId>>
    /\ RenderApp(loading, pathname, FALSE)
    /\ UNCHANGED <<app, saved, storage, coins, loading, searchTerm, pathname,
                   interval, polls>>

\* click on a card's star, with the effect that writes the entry
toggleFavorite(coinId) ==
    /\ AppView = "page"
    /\ pathname = RootPath
    /\ \E i \in 1..Len(filteredCoins) : filteredCoins[i].id = coinId
    /\ favorites' = toggled(favorites, coinId)
    /\ storage' = <<stringify(favorites')>>
    /\ lastOp' = <<"toggleFavorite", coinId>>
    /\ RenderApp(loading, pathname, FALSE)
    /\ UNCHANGED <<app, saved, coins, loading, searchTerm, pathname,
                   interval, polls>>

\* click on a card's "View Details"
ViewDetails(coinId) ==
    /\ AppView = "page"
    /\ pathname = RootPath
    /\ \E i \in 1..Len(filteredCoins) : filteredCoins[i].id = coinId
    /\ pathname' = CoinPath(coinId)
    /\ lastOp' = <<"ViewDetails", coinId>>
    /\ RenderApp(loading, pathname', TRUE)
    /\ UNCHANGED <<app, saved, storage, favorites, coins, loading,
                   searchTerm, interval, polls>>

\* click on "Back to List", which the record view renders
BackToList ==
    /\ DetailMounted
    /\ DetailView = "record"
    /\ pathname' = RootPath
    /\ lastOp' = <<"BackToList">>
    /\ RenderApp(loading, pathname', TRUE)
    /\ UNCHANGED <<app, saved, storage, favorites, coins, loading,
                   searchTerm, interval, polls>>

\* the mounted instance's request resolves: setCoin(response.data), then
\* finally setLoading(false)
FetchCoinDetailSuccess(data) ==
    /\ detailReq = "pending"
    /\ data \in DetailResponses(CoinIdOf(pathname))
    /\ detailCoin' = data
    /\ detailLoading' = FALSE
    /\ detailReq' = IF data = <<>> THEN "empty" ELSE "ok"
    /\ lastOp' = <<"FetchCoinDetailSuccess">>
    /\ UNCHANGED <<app, saved, storage, favorites, coins, loading,
                   searchTerm, pathname, interval, polls, staleDetail,
                   detailIssued>>

\* FetchCoinDetailFail without the finally block
FetchCoinDetailFail_NoFinally ==
    /\ detailReq = "pending"
    /\ detailReq' = "fail"
    /\ lastOp' = <<"FetchCoinDetailFail">>
    /\ UNCHANGED <<app, saved, storage, favorites, coins, loading,
                   searchTerm, pathname, interval, polls, detailCoin,
                   detailLoading, staleDetail, detailIssued>>

\* the mounted instance's request rejects: console.error, then finally
\* setLoading(false)
FetchCoinDetailFail ==
    /\ detailReq = "pending"
    /\ detailLoading' = FALSE
    /\ detailReq' = "fail"
    /\ lastOp' = <<"FetchCoinDetailFail">>
    /\ UNCHANGED <<app, saved, storage, favorites, coins, loading,
                   searchTerm, pathname, interval, polls, detailCoin,
                   staleDetail, detailIssued>>

\* the request of an unmounted instance settles: its setCoin and setLoading
\* find no mounted component
StaleDetailSettles ==
    /\ staleDetail > 0
    /\ staleDetail' = staleDetail - 1
    /\ lastOp' = <<"StaleDetailSettles">>
    /\ UNCHANGED <<app, saved, storage, favorites, coins, loading,
                   searchTerm, pathname, interval, polls, detailCoin,
                   detailLoading, detailReq, detailIssued>>

(* --------------------------- specifications --------------------------- *)

NoEntry == { <<>> }

PollDone(answers) ==
    \/ \E n \in 1..MaxPolls, data \in answers : FetchCoinsSuccess(n, data)
    \/ \E n \in 1..MaxPolls : FetchCoinsFail(n)

DetailDone ==
    \/ \E data \in {<<Bitcoin(100)>>, <<Dogecoin(1)>>, <<>>} :
         FetchCoinDetailSuccess(data)
    \/ FetchCoinDetailFail
    \/ StaleDetailSettles

\* the whole component
Init == InitWith(InitialStorage, InitialPaths)

Next ==
    \/ Mount
    \/ Tick(MaxPolls)
    \/ PollDone(Responses)
    \/ Unmount
    \/ \E s \in TermsApp : setSearchTerm(s)
    \/ \E id \in CoinIds : toggleFavorite(id)
    \/ \E id \in CoinIds : ViewDetails(id)
    \/ BackToList
    \/ DetailDone

Spec == Init /\ [][Next]_vars

\* the list poll and its timer, on the list page without a stored entry
InitPolling == InitWith(NoEntry, {RootPath})

NextPolling ==
    \/ Mount
    \/ Tick(MaxPolls)
    \/ PollDone(Responses)
    \/ Unmount

SpecPolling == InitPolling /\ [][NextPolling]_vars

\* the favorites list and its entry, from every text the entry may hold
InitFavorites == InitWith(InitialStorage, {RootPath})

NextFavorites ==
    \/ Mount
    \/ Tick(MaxPollsFew)
    \/ PollDone(Responses)
    \/ Unmount
    \/ \E s \in TermsApp : setSearchTerm(s)
    \/ \E id \in CoinIds : toggleFavorite(id)

SpecFavorites == InitFavorites /\ [][NextFavorites]_vars

\* the search input and the filtered list
InitFilter == InitWith(NoEntry, {RootPath})

NextFilter ==
    \/ Mount
    \/ Tick(MaxPollsFew)
    \/ PollDone(FilterResponses)
    \/ \E s \in Terms : setSearchTerm(s)

SpecFilter == InitFilter /\ [][NextFilter]_vars

\* the detail view, from every path the page may be opened at
InitDetail == InitWith(NoEntry, InitialPaths)

NextDetail ==
    \/ Mount
    \/ Tick(MaxPollsDetail)
    \/ PollDone(Responses)
    \/ Unmount
    \/ \E s \in TermsApp : setSearchTerm(s)
    \/ \E id \in CoinIds : ViewDetails(id)
    \/ BackToList
    \/ DetailDone

SpecDetail == InitDetail /\ [][NextDetail]_vars

(* ------------------------------- claims ------------------------------- *)

ToSet(list) == { list[i] : i \in 1..Len(list) }

\* C1: the step that handles a failed list request leaves the coin
\* collection as it was before the step, whatever polls came earlier.
C1_FailedPollKeepsCoins ==
    [][lastOp'[1] = "FetchCoinsFail" => coins' = coins]_vars

\* C1 witness: a failed request was handled while the page held a collection
\* from an earlier successful poll.
C1_Witness ==
    /\ lastOp[1] = "FetchCoinsFail"
    /\ app = "mounted"
    /\ coins \in Responses

\* C2: once the first and the second poll have both succeeded with distinct
\* responses (and no later poll was applied), the displayed collection is
\* the second poll's response.
C2_SecondResponseShown ==
    ( /\ app = "mounted"
      /\ Issued >= 2
      /\ polls[1].st = "ok"
      /\ polls[2].st = "ok"
      /\ polls[1].data # polls[2].data
      /\ \A n \in 3..Issued : polls[n].st # "ok" )
    => coins = polls[2].data

\* C3: after startup from an absent entry or from text that does not parse,
\* the application is running and the favorites are empty.
C3_StartsEmptyOnBadEntry ==
    ( /\ lastOp[1] = "Mount"
      /\ (saved = <<>> \/ ~parse(saved[1]).ok) )
    => (app = "mounted" /\ favorites = <<>>)

\* C4: a toggleFavorite(id) step flips the membership of id and of no other
\* identifier, and toggling the same id twice gives back the same set of
\* identifiers.
C4_ToggleFlipsOne ==
    /\ [][lastOp'[1] = "toggleFavorite" =>
            \A id \in ToSet(favorites) \cup ToSet(favorites') \cup CoinIds :
                (Member(favorites', id) = Member(favorites, id))
                    <=> (id # lastOp'[2])]_vars
    /\ [](\A id \in CoinIds :
            ToSet(toggled(toggled(favorites, id), id)) = ToSet(favorites))

\* C4 witness: a toggle removed an identifier from a list that keeps another.
C4_Witness ==
    /\ lastOp = <<"toggleFavorite", "bitcoin">>
    /\ ~Member(favorites, "bitcoin")
    /\ Member(favorites, "dogecoin")

\* C5: in every state of the running application (so after every toggle and
\* before any later event is handled) the entry holds the serialization of
\* the favorites list, and reading it back gives that list.
C5_EntryIsFavorites ==
    app \in {"mounted", "unmounted"} =>
        /\ storage = <<stringify(favorites)>>
        /\ parse(storage[1]) = [ok |-> TRUE, val |-> favorites]

\* C5 witness: a toggle has just been handled and two identifiers are stored.
C5_Witness ==
    /\ lastOp[1] = "toggleFavorite"
    /\ Len(favorites) >= 2

\* two characters are the same letter, case ignored
SameLetter(c, d) ==
    \/ c = d
    \/ c \in DOMAIN UpperToLower /\ UpperToLower[c] = d
    \/ d \in DOMAIN UpperToLower /\ UpperToLower[d] = c

\* s occurs in text as a substring, case ignored
ContainsIgnoringCase(text, s) ==
    \E off \in 0..(Len(text) - Len(s)) :
        \A k \in 1..Len(s) : SameLetter(text[off + k], s[k])

\* positions of the collection whose name or symbol contains the search term
WantedPositions ==
    { i \in 1..Len(coins) :
        \/ ContainsIgnoringCase(coins[i].name, searchTerm)
        \/ ContainsIgnoringCase(coins[i].symbol, searchTerm) }

\* the k-th smallest element of a set of numbers
NthOf(I, k) == CHOOSE i \in I : Cardinality({ j \in I : j < i }) = k - 1

\* C6: the filtered list is exactly the coins whose name or symbol contains
\* the search term case-insensitively, in the collection's order, and the
\* whole collection for the empty term.
C6_FilterIsCaseInsensitiveSubstring ==
    /\ Len(filteredCoins) = Cardinality(WantedPositions)
    /\ \A k \in 1..Len(filteredCoins) :
         filteredCoins[k] = coins[NthOf(WantedPositions, k)]
    /\ (searchTerm = <<>> => filteredCoins = coins)

\* C6 witness: a term typed partly in upper case selects one coin of three
\* through its lower-case symbol.
C6_Witness ==
    /\ lastOp[1] = "setSearchTerm"
    /\ searchTerm = <<"B", "t">>
    /\ Len(coins) = 3
    /\ Len(filteredCoins) = 1
    /\ filteredCoins[1].id = "bitcoin"

\* C7: once the view is torn down the timer is cancelled and no list request
\* is issued in any later step, whether or not requests are still in flight.
C7_NoRequestAfterTeardown ==
    /\ [](app = "unmounted" => ~interval)
    /\ [][app = "unmounted" => Len(polls') = Len(polls)]_vars

\* C7 witness: after teardown a request that was in flight has resolved, and
\* the run could still have issued another request.
C7_Witness ==
    /\ app = "unmounted"
    /\ lastOp[1] = "FetchCoinsSuccess"
    /\ Issued < MaxPolls

\* C8: the mounted detail view shows loading exactly while the request it
\* issued is outstanding, not-found after a failure or an answer without a
\* record, and a record only after a successful answer, which is the record
\* it shows.
C8_DetailViewFollowsRequest ==
    DetailMounted =>
        /\ (DetailView = "loading") <=> (detailReq = "pending")
        /\ detailReq \in {"fail", "empty"} => DetailView = "notfound"
        /\ DetailView = "record" =>
             /\ detailReq = "ok"
             /\ detailCoin \in DetailResponses(CoinIdOf(pathname))

\* C8 witness: the request for an identifier the provider does not know has
\* failed and the view shows not-found.
C8_Witness ==
    /\ DetailMounted
    /\ CoinIdOf(pathname) = "unknown"
    /\ lastOp[1] = "FetchCoinDetailFail"
    /\ DetailView = "notfound"

\* C9: while the initial list request is outstanding the search input is
\* rendered, and on a detail path the detail view is mounted with its own
\* request issued.
C9_HungPollBlocksOnlyItself ==
    ( /\ app = "mounted"
      /\ polls[1].st = "pending" )
    => /\ SearchInputRendered
       /\ IsCoinPath(pathname) => (DetailMounted /\ detailReq # "none")

\* C10: while the view stays on a detail path, one detail request is issued
\* for it.
C10_SingleDetailRequest ==
    DetailMounted => detailIssued <= 1

====
